---- MODULE Spec2Model ----
(***************************************************************************)
(* Model of sap.ui.unified.CalendarAppointment (the intersection text and  *)
(* the per-day sort comparer) and of sap.ui.unified.calendar.Header (the   *)
(* navigation flags, the click dispatch and the additional-text setters).  *)
(*                                                                         *)
(* Time.  A JavaScript Date is modelled by its getTime() value counted in  *)
(* ticks of (60 / TicksPerHour) minutes instead of milliseconds, so that   *)
(* the max-date literal 864000000000000 ms (10^7 days) stays inside TLC's  *)
(* integers.  Tick 0 is a local midnight and the local time zone has no    *)
(* daylight-saving shift, so local midnights are the multiples of ONE_DAY. *)
(*                                                                         *)
(* Text.  A string is a sequence of one-character strings; a resource      *)
(* bundle text is its key followed by the substituted arguments.           *)
(***************************************************************************)
EXTENDS Integers, Sequences, FiniteSets, TLC

\* ---------------------------------------------------------------- bounds
\* Days 0..MaxDay are covered, each with MaxSlot + 1 instants, its midnight
\* the first.
MaxDay == 2
MaxSlot == 1
\* Resolution of the clock: ticks per hour.
TicksPerHour == 2

\* ------------------------------------------------------------ time model
MinutesPerTick == 60 \div TicksPerHour
\* 24 * 60 * 60 * 1000 ms, in ticks
ONE_DAY == 24 * TicksPerHour
\* getEndDate() of an appointment without end date
NULL == -1

\* new Date(864000000000000) of _getDateRangeIntersectionText: 10^7 days
IntersectionMaxDateDays == 10000000
\* 864000000000000 of the comparer: 10^7 days
ComparerMaxDateDays == 10000000

\* getTime() values: the instants k * (8 hours and one tick) after the midnight
\* of day d
Times ==
    {d * ONE_DAY + k * (8 * TicksPerHour + 1) : d \in 0..MaxDay, k \in 0..MaxSlot}

\* An appointment: the inherited date range (startDate, optional endDate).
Appointments == [startDate : Times, endDate : Times \cup {NULL}]

\* new Date(y, m, d, 0, 0, 0).getTime() for the y/m/d of oDate
CurrentDayStart(oDay) == oDay - (oDay % ONE_DAY)

\* ------------------------------------------------------------ text model
Digits == <<"0", "1", "2", "3", "4", "5", "6", "7", "8", "9">>

TwoDigits(n) == <<Digits[(n \div 10) + 1], Digits[(n % 10) + 1]>>

\* DateFormat.getTimeInstance({pattern: "HH:mm"}).format(oDate)
TimeFormat(oTime) ==
    TwoDigits((oTime % ONE_DAY) \div TicksPerHour)
        \o <<":">> \o TwoDigits((oTime % TicksPerHour) * MinutesPerTick)

\* oResourceBundle.getText(sKey, aArgs)
GetText(sKey, aArgs) == <<sKey>> \o aArgs

\* ------------------------------------------- CalendarAppointment, pure part
\* this.getEndDate() ? this.getEndDate() : new Date(864000000000000)
IntersectionEndDate(oApp) ==
    IF oApp.endDate # NULL THEN oApp.endDate
                           ELSE IntersectionMaxDateDays * ONE_DAY

DateRangeIntersectionText(oApp, oCurrentlyDisplayedDate) ==
    LET oStartDate == oApp.startDate
        oEndDate == IntersectionEndDate(oApp)
        oCurrentDayStart == CurrentDayStart(oCurrentlyDisplayedDate)
        oNextDayStart == oCurrentDayStart + ONE_DAY
    IN  IF oStartDate > oNextDayStart \/ oEndDate < oCurrentDayStart
          THEN <<>>
        ELSE IF oStartDate < oCurrentDayStart /\ oEndDate > oNextDayStart
          THEN GetText("PLANNINGCALENDAR_ALLDAY", <<>>)
        ELSE IF oStartDate < oCurrentDayStart
          THEN GetText("PLANNINGCALENDAR_UNTIL", TimeFormat(oEndDate))
        ELSE IF oEndDate > oNextDayStart
          THEN TimeFormat(oStartDate)
        ELSE TimeFormat(oStartDate) \o <<" ", "-", " ">> \o TimeFormat(oEndDate)

\* faulty variant: a missing end date counts as time 0
ComparerEndDateTimeZero(oApp) ==
    IF oApp.endDate # NULL THEN oApp.endDate ELSE 0

\* getEndDate() ? getEndDate().getTime() : 864000000000000
ComparerEndDateTime(oApp) ==
    IF oApp.endDate # NULL THEN oApp.endDate
                           ELSE ComparerMaxDateDays * ONE_DAY

\* bWholeDay1 / bWholeDay2
WholeDay(oApp, iCurrentDayStartTime, iNextDayStart) ==
    /\ oApp.startDate <= iCurrentDayStartTime
    /\ ComparerEndDateTime(oApp) >= iNextDayStart

\* faulty variant: whole-day appointments get no precedence
ComparerNoWholeDay(iCurrentDayStartTime, iNextDayStart, oAppInfo1, oAppInfo2) ==
    IF oAppInfo1.startDate # oAppInfo2.startDate
      THEN oAppInfo1.startDate - oAppInfo2.startDate
      ELSE ComparerEndDateTime(oAppInfo2) - ComparerEndDateTime(oAppInfo1)

\* faulty variant: a mixed pair yields -1 in either order
ComparerOneSided(iCurrentDayStartTime, iNextDayStart, oAppInfo1, oAppInfo2) ==
    LET bWholeDay1 == WholeDay(oAppInfo1, iCurrentDayStartTime, iNextDayStart)
        bWholeDay2 == WholeDay(oAppInfo2, iCurrentDayStartTime, iNextDayStart)
    IN  IF bWholeDay1 = bWholeDay2
          THEN IF oAppInfo1.startDate # oAppInfo2.startDate
                 THEN oAppInfo1.startDate - oAppInfo2.startDate
                 ELSE ComparerEndDateTime(oAppInfo2) - ComparerEndDateTime(oAppInfo1)
          ELSE -1

\* faulty variant: at equal start times the shorter appointment comes first
ComparerShortestFirst(iCurrentDayStartTime, iNextDayStart, oAppInfo1, oAppInfo2) ==
    LET bWholeDay1 == WholeDay(oAppInfo1, iCurrentDayStartTime, iNextDayStart)
        bWholeDay2 == WholeDay(oAppInfo2, iCurrentDayStartTime, iNextDayStart)
    IN  IF bWholeDay1 = bWholeDay2
          THEN IF oAppInfo1.startDate # oAppInfo2.startDate
                 THEN oAppInfo1.startDate - oAppInfo2.startDate
                 ELSE ComparerEndDateTime(oAppInfo1) - ComparerEndDateTime(oAppInfo2)
          ELSE IF bWholeDay1 THEN -1 ELSE 1

\* the function returned by _getComparer(oDate), with the closure's
\* iCurrentDayStartTime and iNextDayStart as parameters
Comparer(iCurrentDayStartTime, iNextDayStart, oAppInfo1, oAppInfo2) ==
    LET iStartDateTime1 == oAppInfo1.startDate
        iStartDateTime2 == oAppInfo2.startDate
        iEndDateTime1 == ComparerEndDateTime(oAppInfo1)
        iEndDateTime2 == ComparerEndDateTime(oAppInfo2)
        bWholeDay1 == WholeDay(oAppInfo1, iCurrentDayStartTime, iNextDayStart)
        bWholeDay2 == WholeDay(oAppInfo2, iCurrentDayStartTime, iNextDayStart)
    IN  IF (bWholeDay1 /\ bWholeDay2) \/ (~bWholeDay1 /\ ~bWholeDay2)
          THEN IF iStartDateTime1 - iStartDateTime2 = 0
                 THEN iEndDateTime2 - iEndDateTime1
                 ELSE iStartDateTime1 - iStartDateTime2
        ELSE IF bWholeDay1 THEN -1
        ELSE 1

\* ------------------------------------------------------ Header, pure part
\* the buttons of the header
Buttons == 0..2

\* values of an additionalTextButton<i> property: unset or empty, and two texts
Texts == {"", "a", "b"}
\* the values null and undefined handed to a setter (no strings)
sNull == "<null>"
sUndefined == "<undefined>"

\* the renderer leaves a sub-element out of the DOM
NoNode == "no node"

\* JavaScript's ToBoolean of a string, null or undefined
Truthy(sValue) == sValue \notin {"", sNull, sUndefined}

\* ids of the sub-elements a click can hit, in the order onclick tests them
PrevId == "prev"
NextId == "next"
ButtonId(iButton) == <<"B0", "B1", "B2">>[iButton + 1]

\* jQuery.sap.containsOrEquals(this.getDomRef(sId), oEvent.target): false when
\* the sub-element is not in the DOM
ContainsOrEquals(aDomRefs, sId, oEvt) ==
    sId \in aDomRefs /\ sId \in oEvt.aContaining

\* faulty variant: the enabled flags are not consulted
OnclickIgnoringEnabled(aDomRefs, bEnabledPrevious, bEnabledNext, oEvt) ==
    IF oEvt.bDelayedMouseEvent THEN <<>>
    ELSE IF ContainsOrEquals(aDomRefs, PrevId, oEvt) THEN <<"pressPrevious">>
    ELSE IF ContainsOrEquals(aDomRefs, NextId, oEvt) THEN <<"pressNext">>
    ELSE IF ContainsOrEquals(aDomRefs, ButtonId(0), oEvt) THEN <<"pressButton0">>
    ELSE IF ContainsOrEquals(aDomRefs, ButtonId(1), oEvt) THEN <<"pressButton1">>
    ELSE IF ContainsOrEquals(aDomRefs, ButtonId(2), oEvt) THEN <<"pressButton2">>
    ELSE <<>>

\* faulty variant: independent ifs instead of one else-if chain
OnclickWithoutElse(aDomRefs, bEnabledPrevious, bEnabledNext, oEvt) ==
    IF oEvt.bDelayedMouseEvent THEN <<>>
    ELSE (IF ContainsOrEquals(aDomRefs, PrevId, oEvt) /\ bEnabledPrevious
            THEN <<"pressPrevious">> ELSE <<>>)
      \o (IF ContainsOrEquals(aDomRefs, NextId, oEvt) /\ bEnabledNext
            THEN <<"pressNext">> ELSE <<>>)
      \o (IF ContainsOrEquals(aDomRefs, ButtonId(0), oEvt)
            THEN <<"pressButton0">> ELSE <<>>)
      \o (IF ContainsOrEquals(aDomRefs, ButtonId(1), oEvt)
            THEN <<"pressButton1">> ELSE <<>>)
      \o (IF ContainsOrEquals(aDomRefs, ButtonId(2), oEvt)
            THEN <<"pressButton2">> ELSE <<>>)

\* Header.prototype.onclick: the events it fires, in order
OnclickFires(aDomRefs, bEnabledPrevious, bEnabledNext, oEvt) ==
    IF oEvt.bDelayedMouseEvent THEN <<>>
    ELSE IF ContainsOrEquals(aDomRefs, PrevId, oEvt) /\ bEnabledPrevious
      THEN <<"pressPrevious">>
    ELSE IF ContainsOrEquals(aDomRefs, NextId, oEvt) /\ bEnabledNext
      THEN <<"pressNext">>
    ELSE IF ContainsOrEquals(aDomRefs, ButtonId(0), oEvt) THEN <<"pressButton0">>
    ELSE IF ContainsOrEquals(aDomRefs, ButtonId(1), oEvt) THEN <<"pressButton1">>
    ELSE IF ContainsOrEquals(aDomRefs, ButtonId(2), oEvt) THEN <<"pressButton2">>
    ELSE <<>>

\* faulty variant of bRerender: only an appearing text counts
RerenderOnlyWhenAppearing(sOldText, sNewText) ==
    ~Truthy(sOldText) /\ Truthy(sNewText)

\* bRerender of _setAdditionalText
Rerender(sOldText, sNewText) ==
    \/ (~Truthy(sOldText) /\ Truthy(sNewText))
    \/ (Truthy(sOldText) /\ ~Truthy(sNewText))

\* the value setProperty stores: null and undefined become the default ""
StoredText(sValue) == IF sValue \in {sNull, sUndefined} THEN "" ELSE sValue

\* this.$("B" + iButton + "-AddText").text(sValue) on a node showing sCurrent:
\* the texts the node can show afterwards.  text(undefined) is jQuery's getter
\* and writes nothing; text(null) empties the node or, where jQuery goes
\* through createTextNode, writes "null", depending on the jQuery at hand.
JQueryText(sCurrent, sValue) ==
    IF sValue = sUndefined THEN {sCurrent}
    ELSE IF sValue = sNull THEN {"", "null"}
    ELSE {sValue}

\* ------------------------------------------------------------------ state
VARIABLES
    \* CalendarAppointment instance and the last _getDateRangeIntersectionText call
    appointment,              \* this: [startDate, endDate]
    oCurrentlyDisplayedDate,  \* argument of the last call, NULL before the first
    sText,                    \* its return value
    \* the comparer of _getComparer and its last call
    oAppInfo1, oAppInfo2,     \* the two appointments being sorted
    oDate,                    \* argument of _getComparer, NULL while no comparer exists
    iCurrentDayStartTime,     \* closure variable
    iNextDayStart,            \* closure variable
    bCompared,                \* the comparer has been called on (oAppInfo1, oAppInfo2)
    iResult,                  \* its return value
    \* Header: properties
    enabledPrevious, enabledNext,
    visibleButton,            \* [Buttons -> BOOLEAN]
    additionalTextButton,     \* [Buttons -> Texts]
    \* Header: rendering
    bRendered,                \* getDomRef() is not null
    bInvalidated,             \* a re-rendering is requested and not yet done
    aDomRefs,                 \* ids of the sub-elements in the DOM
    aDomDisabled,             \* those carrying sapUiCalDsbl and disabled
    aDomAddText,              \* [Buttons -> text of B<i>-AddText, or NoNode]
    \* Header: the handler that ran last
    oEvent,                   \* the click it handled, NoEvent if it was no click
    aFired,                   \* the events it fired, in order
    oLastSet                  \* what _setAdditionalText did, NoSet if it did not run

appVars == <<appointment, oCurrentlyDisplayedDate, sText>>
cmpVars == <<oAppInfo1, oAppInfo2, oDate, iCurrentDayStartTime, iNextDayStart,
            bCompared, iResult>>
propVars == <<enabledPrevious, enabledNext, visibleButton, additionalTextButton>>
domVars == <<bRendered, bInvalidated, aDomRefs, aDomDisabled, aDomAddText>>
logVars == <<oEvent, aFired, oLastSet>>
hdrVars == <<propVars, domVars, logVars>>
vars == <<appVars, cmpVars, hdrVars>>

NoEvent == [aContaining |-> {}, bDelayedMouseEvent |-> FALSE, bClick |-> FALSE]
NoSet == [bCalled |-> FALSE]

\* an appointment of a component the specification at hand leaves alone
IdleAppointment == [startDate |-> 0, endDate |-> NULL]

\* new CalendarAppointment({startDate, endDate}) for a range out of aApps
AppointmentInit(aApps) ==
    /\ appointment \in aApps
    /\ oCurrentlyDisplayedDate = NULL
    /\ sText = <<>>

\* the two appointment infos handed to the sort
ComparerInit(aApps) ==
    /\ oAppInfo1 \in aApps
    /\ oAppInfo2 \in aApps
    /\ oDate = NULL
    /\ iCurrentDayStartTime = NULL
    /\ iNextDayStart = NULL
    /\ bCompared = FALSE
    /\ iResult = 0

\* new Header(): the property defaults of the metadata, nothing rendered
HeaderInit ==
    /\ enabledPrevious = TRUE
    /\ enabledNext = TRUE
    /\ visibleButton = [i \in Buttons |-> i # 0]
    /\ additionalTextButton = [i \in Buttons |-> ""]
    /\ bRendered = FALSE
    /\ bInvalidated = FALSE
    /\ aDomRefs = {}
    /\ aDomDisabled = {}
    /\ aDomAddText = [i \in Buttons |-> NoNode]
    /\ oEvent = NoEvent
    /\ aFired = <<>>
    /\ oLastSet = NoSet

\* ---------------------------------------------------------------- actions
\* appointment._getDateRangeIntersectionText(oDate)
GetDateRangeIntersectionText(oDisplayedDate) ==
    /\ oCurrentlyDisplayedDate' = oDisplayedDate
    /\ sText' = DateRangeIntersectionText(appointment, oDisplayedDate)
    /\ UNCHANGED <<appointment, cmpVars, hdrVars>>

\* CalendarAppointment._getComparer(oDate)
GetComparer(oRefDate) ==
    /\ oDate' = oRefDate
    /\ iCurrentDayStartTime' = CurrentDayStart(oRefDate)
    /\ iNextDayStart' = CurrentDayStart(oRefDate) + ONE_DAY
    /\ bCompared' = FALSE
    /\ iResult' = 0
    /\ UNCHANGED <<oAppInfo1, oAppInfo2, appVars, hdrVars>>

\* the returned function applied to (oAppInfo1, oAppInfo2)
Compare ==
    /\ oDate # NULL
    /\ bCompared' = TRUE
    /\ iResult' = Comparer(iCurrentDayStartTime, iNextDayStart, oAppInfo1, oAppInfo2)
    /\ UNCHANGED <<oAppInfo1, oAppInfo2, oDate, iCurrentDayStartTime, iNextDayStart,
                   appVars, hdrVars>>

\* Header.prototype.setEnabledPrevious(bEnabled)
SetEnabledPrevious(bEnabled) ==
    /\ enabledPrevious' = bEnabled
    /\ aDomDisabled' = IF ~bRendered THEN aDomDisabled
                       ELSE IF bEnabled THEN aDomDisabled \ {PrevId}
                       ELSE aDomDisabled \cup {PrevId}
    /\ oEvent' = NoEvent /\ aFired' = <<>> /\ oLastSet' = NoSet
    /\ UNCHANGED <<enabledNext, visibleButton, additionalTextButton, bRendered,
                   bInvalidated, aDomRefs, aDomAddText, appVars, cmpVars>>

\* Header.prototype.setEnabledNext(bEnabled)
SetEnabledNext(bEnabled) ==
    /\ enabledNext' = bEnabled
    /\ aDomDisabled' = IF ~bRendered THEN aDomDisabled
                       ELSE IF bEnabled THEN aDomDisabled \ {NextId}
                       ELSE aDomDisabled \cup {NextId}
    /\ oEvent' = NoEvent /\ aFired' = <<>> /\ oLastSet' = NoSet
    /\ UNCHANGED <<enabledPrevious, visibleButton, additionalTextButton, bRendered,
                   bInvalidated, aDomRefs, aDomAddText, appVars, cmpVars>>

\* setVisibleButton<i>(bVisible), the setter generated from the metadata:
\* setProperty without suppressing the invalidation
SetVisibleButton(iButton, bVisible) ==
    /\ visibleButton' = [visibleButton EXCEPT ![iButton] = bVisible]
    /\ bInvalidated' = (bInvalidated \/ visibleButton[iButton] # bVisible)
    /\ oEvent' = NoEvent /\ aFired' = <<>> /\ oLastSet' = NoSet
    /\ UNCHANGED <<enabledPrevious, enabledNext, additionalTextButton, bRendered,
                   aDomRefs, aDomDisabled, aDomAddText, appVars, cmpVars>>

\* the render cycle writes the header's DOM from its properties
Render ==
    /\ bRendered' = TRUE
    /\ bInvalidated' = FALSE
    /\ aDomRefs' = {PrevId, NextId} \cup {ButtonId(i) : i \in {j \in Buttons : visibleButton[j]}}
    /\ aDomDisabled' = {sId \in {PrevId, NextId} :
                          \/ sId = PrevId /\ ~enabledPrevious
                          \/ sId = NextId /\ ~enabledNext}
    /\ aDomAddText' = [i \in Buttons |->
                         IF visibleButton[i] /\ additionalTextButton[i] # ""
                           THEN additionalTextButton[i] ELSE NoNode]
    /\ oEvent' = NoEvent /\ aFired' = <<>> /\ oLastSet' = NoSet
    /\ UNCHANGED <<propVars, appVars, cmpVars>>

\* Header.prototype.onclick(oEvent); oEvt.aContaining are the sub-elements
\* that contain or equal oEvent.target.  Any set of rendered sub-elements is
\* admitted, nested or overlapping ones included.
Onclick(oEvt) ==
    /\ oEvent' = oEvt
    /\ aFired' = OnclickFires(aDomRefs, enabledPrevious, enabledNext, oEvt)
    /\ oLastSet' = NoSet
    /\ UNCHANGED <<propVars, domVars, appVars, cmpVars>>

\* Header.prototype.setAdditionalTextButton<iButton>(sNewText), that is
\* _setAdditionalText.call(this, iButton, sNewText)
SetAdditionalTextButton(iButton, sNewText) ==
    LET sOldText == additionalTextButton[iButton]
        bReturn == (sOldText = sNewText)
        bRerender == Rerender(sOldText, sNewText)
        bChanges == StoredText(sNewText) # sOldText
        bPatch == ~bRerender /\ bRendered /\ visibleButton[iButton]
    IN  /\ additionalTextButton' =
              IF bReturn THEN additionalTextButton
              ELSE [additionalTextButton EXCEPT ![iButton] = StoredText(sNewText)]
        /\ bInvalidated' = (bInvalidated \/ (~bReturn /\ bRerender /\ bChanges))
        /\ IF ~bReturn /\ bPatch /\ aDomAddText[iButton] # NoNode
             THEN \E sShown \in JQueryText(aDomAddText[iButton], sNewText) :
                    aDomAddText' = [aDomAddText EXCEPT ![iButton] = sShown]
             ELSE aDomAddText' = aDomAddText
        /\ oLastSet' = [bCalled |-> TRUE,
                        iButton |-> iButton,
                        sOldText |-> sOldText,
                        sText |-> sNewText,
                        bSetProperty |-> ~bReturn,
                        bSuppressInvalidate |-> ~bReturn /\ ~bRerender,
                        bInvalidate |-> ~bReturn /\ bRerender /\ bChanges,
                        bDomPatch |-> ~bReturn /\ bPatch]   \* line 312 is reached
        /\ oEvent' = NoEvent /\ aFired' = <<>>
        /\ UNCHANGED <<enabledPrevious, enabledNext, visibleButton, bRendered,
                       aDomRefs, aDomDisabled, appVars, cmpVars>>

\* the clicks the DOM at hand can deliver
Clicks ==
    [aContaining : SUBSET aDomRefs, bDelayedMouseEvent : BOOLEAN, bClick : {TRUE}]

\* --------------------------------------------------------- specifications
InitText ==
    AppointmentInit(Appointments) /\ ComparerInit({IdleAppointment}) /\ HeaderInit
NextText == \E oDisplayedDate \in Times : GetDateRangeIntersectionText(oDisplayedDate)
SpecText == InitText /\ [][NextText]_vars

InitComparer ==
    AppointmentInit({IdleAppointment}) /\ ComparerInit(Appointments) /\ HeaderInit
NextComparer ==
    \/ \E oRefDate \in Times : GetComparer(oRefDate)
    \/ Compare
SpecComparer == InitComparer /\ [][NextComparer]_vars

InitHeader ==
    AppointmentInit({IdleAppointment}) /\ ComparerInit({IdleAppointment}) /\ HeaderInit

NextClick ==
    \/ \E bEnabled \in BOOLEAN : SetEnabledPrevious(bEnabled)
    \/ \E bEnabled \in BOOLEAN : SetEnabledNext(bEnabled)
    \/ \E iButton \in Buttons, bVisible \in BOOLEAN : SetVisibleButton(iButton, bVisible)
    \/ Render
    \/ \E oEvt \in Clicks : Onclick(oEvt)
SpecClick == InitHeader /\ [][NextClick]_vars

NextAdditionalText ==
    \/ \E iButton \in Buttons, sNewText \in Texts \cup {sNull, sUndefined} :
         SetAdditionalTextButton(iButton, sNewText)
    \/ \E iButton \in Buttons, bVisible \in BOOLEAN : SetVisibleButton(iButton, bVisible)
    \/ Render
SpecAdditionalText == InitHeader /\ [][NextAdditionalText]_vars

\* ------------------------------------------------- vocabulary of the claims
\* the end of an appointment's range, a missing end date being the maximum
\* date 864000000000000 ms = 10^7 days
EndOrMax(oApp) ==
    IF oApp.endDate = NULL THEN 10000000 * ONE_DAY ELSE oApp.endDate

\* the local midnight that begins the day of instant t
MidnightBefore(t) ==
    CHOOSE m \in {d * ONE_DAY : d \in 0..MaxDay} : m <= t /\ t < m + ONE_DAY

\* the displayed day's window [DisplayedDayStart, DisplayedNextDayStart)
DisplayedDayStart == MidnightBefore(oCurrentlyDisplayedDate)
DisplayedNextDayStart == DisplayedDayStart + ONE_DAY

\* the reference day's window of the comparer
RefDayStart == MidnightBefore(oDate)
RefNextDayStart == RefDayStart + ONE_DAY

TextReturned == oCurrentlyDisplayedDate # NULL

AllDayLabel == <<"PLANNINGCALENDAR_ALLDAY">>

\* the appointment spans the whole day [iDayStart, iNextDay)
SpansDay(oApp, iDayStart, iNextDay) ==
    oApp.startDate <= iDayStart /\ EndOrMax(oApp) >= iNextDay

Sign(i) == IF i < 0 THEN -1 ELSE IF i > 0 THEN 1 ELSE 0

\* ------------------------------------------------------------------ claims
\* C1: _getDateRangeIntersectionText returns the empty string for every
\* appointment whose range [start, end] has no instant in common with the
\* displayed day's window [dayStart, dayStart + 24h), an appointment that
\* starts exactly at the next day's start included.
C1_NoOverlapGivesEmptyText ==
    (/\ TextReturned
     /\ appointment.startDate <= EndOrMax(appointment)
     /\ \/ appointment.startDate >= DisplayedNextDayStart
        \/ EndOrMax(appointment) < DisplayedDayStart)
        => sText = <<>>

\* C2: _getDateRangeIntersectionText returns the PLANNINGCALENDAR_ALLDAY label
\* for every appointment that starts before dayStart and ends at or after the
\* next day's start (an end equal to it and a missing end date included).
C2_CoversDayGivesAllDay ==
    (/\ TextReturned
     /\ appointment.startDate < DisplayedDayStart
     /\ EndOrMax(appointment) >= DisplayedNextDayStart)
        => sText = AllDayLabel

\* C3: _getDateRangeIntersectionText returns the formatted start time alone
\* for every appointment that starts within the displayed day and ends at or
\* after the next day's start (an end equal to it included).
C3_StartsInDayGivesStartOnly ==
    (/\ TextReturned
     /\ appointment.startDate >= DisplayedDayStart
     /\ appointment.startDate < DisplayedNextDayStart
     /\ EndOrMax(appointment) >= DisplayedNextDayStart)
        => sText = TimeFormat(appointment.startDate)

\* C4: when one of the two compared appointments spans the whole reference day
\* and the other does not, the comparer returns a negative value with the
\* whole-day one first and a positive value with it second, whatever the start
\* times are.
C4_WholeDayFirst ==
    bCompared =>
        /\ (/\ SpansDay(oAppInfo1, RefDayStart, RefNextDayStart)
            /\ ~SpansDay(oAppInfo2, RefDayStart, RefNextDayStart))
               => iResult < 0
        /\ (/\ ~SpansDay(oAppInfo1, RefDayStart, RefNextDayStart)
            /\ SpansDay(oAppInfo2, RefDayStart, RefNextDayStart))
               => iResult > 0

\* a whole-day appointment compared with a non-whole-day one that starts
\* earlier
C4_Witness ==
    /\ bCompared
    /\ SpansDay(oAppInfo1, RefDayStart, RefNextDayStart)
    /\ ~SpansDay(oAppInfo2, RefDayStart, RefNextDayStart)
    /\ oAppInfo2.startDate < oAppInfo1.startDate
    /\ iResult < 0

\* C5: the comparer of a reference day is a strict weak ordering: the result
\* for (a, b) has the opposite sign of the result for (b, a), never both are
\* negative, "before" is transitive and so is equivalence (result 0), with
\* whole-day, non-whole-day and open-ended appointments mixed.
C5_StrictWeakOrdering ==
    bCompared =>
        LET cmp(a, b) == Comparer(RefDayStart, RefNextDayStart, a, b)
        IN  /\ Sign(iResult) = -Sign(cmp(oAppInfo2, oAppInfo1))
            /\ ~(iResult < 0 /\ cmp(oAppInfo2, oAppInfo1) < 0)
            /\ \A c \in Appointments :
                 /\ (iResult < 0 /\ cmp(oAppInfo2, c) < 0)
                      => cmp(oAppInfo1, c) < 0
                 /\ (iResult = 0 /\ cmp(oAppInfo2, c) = 0)
                      => cmp(oAppInfo1, c) = 0

\* an open-ended whole-day appointment before a non-whole-day one that is
\* itself before a third appointment
C5_Witness ==
    /\ bCompared
    /\ iResult < 0
    /\ oAppInfo1.endDate = NULL
    /\ SpansDay(oAppInfo1, RefDayStart, RefNextDayStart)
    /\ ~SpansDay(oAppInfo2, RefDayStart, RefNextDayStart)
    /\ \E c \in Appointments :
         Comparer(RefDayStart, RefNextDayStart, oAppInfo2, c) < 0

\* C6: for two appointments that are both whole-day or both not, the comparer
\* orders by ascending start time, at equal start times the later end (a
\* missing end date being the maximum date) comes first, and the result is 0
\* only when start and end are both equal.
C6_StartThenLongestFirst ==
    (/\ bCompared
     /\ SpansDay(oAppInfo1, RefDayStart, RefNextDayStart)
          = SpansDay(oAppInfo2, RefDayStart, RefNextDayStart))
        => LET s1 == oAppInfo1.startDate
               s2 == oAppInfo2.startDate
               e1 == EndOrMax(oAppInfo1)
               e2 == EndOrMax(oAppInfo2)
           IN  /\ s1 < s2 => iResult < 0
               /\ s1 > s2 => iResult > 0
               /\ (s1 = s2 /\ e1 > e2) => iResult < 0
               /\ (s1 = s2 /\ e1 < e2) => iResult > 0
               /\ iResult = 0 <=> (s1 = s2 /\ e1 = e2)

\* same start, the first appointment open-ended and the second one not
C6_Witness ==
    /\ bCompared
    /\ SpansDay(oAppInfo1, RefDayStart, RefNextDayStart)
         = SpansDay(oAppInfo2, RefDayStart, RefNextDayStart)
    /\ oAppInfo1.startDate = oAppInfo2.startDate
    /\ oAppInfo1.endDate = NULL
    /\ oAppInfo2.endDate # NULL
    /\ iResult < 0

\* C10: whenever _getDateRangeIntersectionText returns the
\* PLANNINGCALENDAR_ALLDAY label for a day, the comparer of that day classifies
\* the appointment as whole-day and sorts it before every appointment it does
\* not classify so; both use the same max date for a missing end date.
C10_AllDayTextImpliesWholeDay ==
    /\ IntersectionMaxDateDays = ComparerMaxDateDays
    /\ (TextReturned /\ sText = AllDayLabel) =>
         /\ WholeDay(appointment, DisplayedDayStart, DisplayedNextDayStart)
         /\ \A b \in Appointments :
              ~WholeDay(b, DisplayedDayStart, DisplayedNextDayStart) =>
                /\ Comparer(DisplayedDayStart, DisplayedNextDayStart,
                            appointment, b) < 0
                /\ Comparer(DisplayedDayStart, DisplayedNextDayStart,
                            b, appointment) > 0

\* the label returned for an open-ended appointment
C10_Witness ==
    /\ TextReturned
    /\ sText = AllDayLabel
    /\ appointment.endDate = NULL

\* the sub-elements onclick tests and the event of each, in priority order
Priority ==
    << [sId |-> "prev", sEvent |-> "pressPrevious"],
       [sId |-> "next", sEvent |-> "pressNext"],
       [sId |-> "B0", sEvent |-> "pressButton0"],
       [sId |-> "B1", sEvent |-> "pressButton1"],
       [sId |-> "B2", sEvent |-> "pressButton2"] >>

\* the k-th region contains or equals the click's target and, for the
\* previous and the next button, is enabled
Matches(k) ==
    /\ Priority[k].sId \in oEvent.aContaining
    /\ (k = 1 => enabledPrevious)
    /\ (k = 2 => enabledNext)

Fired(sEvent) == \E n \in 1..Len(aFired) : aFired[n] = sEvent

\* C7: a click whose target lies in the previous button while enabledPrevious
\* is false never fires pressPrevious and goes on to the next-button test; a
\* click in the next button while enabledNext is false never fires pressNext
\* and goes on to the tests of button 0, 1 and 2.
C7_DisabledFallsThrough ==
    oEvent.bClick =>
        /\ ("prev" \in oEvent.aContaining /\ ~enabledPrevious) =>
             /\ ~Fired("pressPrevious")
             /\ (/\ ~oEvent.bDelayedMouseEvent
                 /\ "next" \in oEvent.aContaining
                 /\ enabledNext) => aFired = <<"pressNext">>
        /\ (/\ "next" \in oEvent.aContaining /\ ~enabledNext
            /\ ~("prev" \in oEvent.aContaining /\ enabledPrevious)) =>
             /\ ~Fired("pressNext")
             /\ ~oEvent.bDelayedMouseEvent =>
                  /\ "B0" \in oEvent.aContaining => aFired = <<"pressButton0">>
                  /\ ("B0" \notin oEvent.aContaining /\ "B1" \in oEvent.aContaining)
                       => aFired = <<"pressButton1">>
                  /\ (/\ "B0" \notin oEvent.aContaining
                      /\ "B1" \notin oEvent.aContaining
                      /\ "B2" \in oEvent.aContaining)
                       => aFired = <<"pressButton2">>

\* a click inside the disabled previous button and the enabled next button
C7_Witness ==
    /\ oEvent.bClick
    /\ ~oEvent.bDelayedMouseEvent
    /\ "prev" \in oEvent.aContaining
    /\ ~enabledPrevious
    /\ "next" \in oEvent.aContaining
    /\ aFired = <<"pressNext">>

\* C8: a click fires at most one of the five events, the one of the first
\* match in the order previous, next, button 0, button 1, button 2 (previous
\* and next matching only while enabled); a delayedMouseEvent click fires none.
C8_FirstMatchOnly ==
    oEvent.bClick =>
        /\ Len(aFired) <= 1
        /\ oEvent.bDelayedMouseEvent => aFired = <<>>
        /\ ~oEvent.bDelayedMouseEvent =>
             IF \E k \in 1..5 : Matches(k)
               THEN LET first == CHOOSE k \in 1..5 :
                                   Matches(k) /\ \A j \in 1..(k - 1) : ~Matches(j)
                    IN  aFired = <<Priority[first].sEvent>>
               ELSE aFired = <<>>

\* a click whose target lies in two matching regions
C8_Witness ==
    /\ oEvent.bClick
    /\ ~oEvent.bDelayedMouseEvent
    /\ Cardinality({k \in 1..5 : Matches(k)}) >= 2
    /\ Len(aFired) = 1

\* C9: setAdditionalTextButton<i> requests a full re-rendering (setProperty
\* without suppressed invalidation, no DOM patch) exactly when the text changes
\* between unset/empty and non-empty; between two different non-empty texts it
\* writes the property with the invalidation suppressed and patches the DOM
\* exactly if the header is rendered and button i visible; with the current
\* value it writes nothing and requests nothing.
C9_AdditionalTextRerender ==
    oLastSet.bCalled =>
        LET i == oLastSet.iButton
            sOld == oLastSet.sOldText
            sNew == oLastSet.sText
            bOldEmpty == sOld = ""
            bNewEmpty == sNew \in {"", sNull, sUndefined}
            bFull == /\ oLastSet.bSetProperty
                     /\ ~oLastSet.bSuppressInvalidate
                     /\ oLastSet.bInvalidate
                     /\ ~oLastSet.bDomPatch
        IN  /\ bFull <=> (bOldEmpty # bNewEmpty)
            /\ oLastSet.bInvalidate <=> (bOldEmpty # bNewEmpty)
            /\ bFull => bInvalidated
            /\ (~bOldEmpty /\ ~bNewEmpty /\ sOld # sNew) =>
                 /\ oLastSet.bSetProperty
                 /\ oLastSet.bSuppressInvalidate
                 /\ oLastSet.bDomPatch <=> (bRendered /\ visibleButton[i])
                 /\ additionalTextButton[i] = sNew
            /\ sOld = sNew =>
                 /\ ~oLastSet.bSetProperty
                 /\ ~oLastSet.bDomPatch
                 /\ additionalTextButton[i] = sOld

\* a text set on a rendered, visible button that had none
C9_Witness ==
    /\ oLastSet.bCalled
    /\ oLastSet.sOldText = ""
    /\ Truthy(oLastSet.sText)
    /\ bRendered
    /\ visibleButton[oLastSet.iButton]
    /\ bInvalidated
    /\ ~oLastSet.bDomPatch

====
